---- MODULE Spec2Model ----
(***************************************************************************)
(* Model of src/main.py: the device loop of main() and get_device_info(),  *)
(* one action per statement, and two for send_command: the command is     *)
(* written, then the call returns or raises.  The netmiko session          *)
(* (ConnectHandler, find_prompt, write_channel, read_channel, redispatch,  *)
(* send_command, disconnect) is the environment: every call of it either   *)
(* returns or raises, and the remote end decides which shell the channel   *)
(* talks to.                                                               *)
(* A text is a sequence of symbols (characters or longer tokens).          *)
(***************************************************************************)
EXTENDS Integers, Sequences, FiniteSets, TLC

VARIABLES
    pc,                      \* position of the program (statement about to run)
    jumphost_params,         \* main.py:93
    devices,                 \* main.py:110
    device_type_parameters,  \* main.py:114
    di,                      \* index in devices of the loop variable `device`
    device_type_params,      \* main.py:118
    clock,                   \* wall clock in seconds, read by time.strftime
    filename,                \* main.py:120
    files,                   \* the files written so far: set of [name, content]
    net_connect,             \* the session object of the current call
    shell,                   \* what the channel of net_connect is really talking to
    output,                  \* main.py:55 and main.py:80 (the same local name)
    ci,                      \* number of commands of the current loop already sent
    log,                     \* calls made on netmiko for the current device, in order
    exc,                     \* exception in flight ("none" when there is none)
    show_command_outputs,    \* main.py:122, value returned by get_device_info
    open_sessions,           \* sessions of the process that are open (not disconnected)
    outstanding              \* commands written whose prompt has not come back

vars == <<pc, jumphost_params, devices, device_type_parameters, di,
          device_type_params, clock, filename, files, net_connect, shell,
          output, ci, log, exc, show_command_outputs, open_sessions, outstanding>>

-----------------------------------------------------------------------------
(* Bounds of the inputs *)

MaxDevices == 2

MaxCmds == 2

-----------------------------------------------------------------------------
(* Inputs: the three configuration files *)

device_connect_credentials == [username |-> "admin", password |-> "secret"]

JumphostParamsSet ==
    { [device_type |-> "linux", host |-> h, username |-> "jump", password |-> "jpw"]
        : h \in {"", "jump1"} }

\* inventory entries; "nokia_sros" has no entry in device_type_parameters,
\* and two entries carry the same hostname
DeviceSet ==
    { [host |-> "10.0.0.1", type |-> "cisco_ios",     hostname |-> "r1"],
      [host |-> "10.0.0.2", type |-> "juniper_junos", hostname |-> "r1"],
      [host |-> "10.0.0.3", type |-> "nokia_sros",    hostname |-> "r3"] }

SeqsUpTo(S, n) == UNION { [1..k -> S] : k \in 0..n }

\* the inventories: up to MaxDevices entries, each entry listed once
Inventories ==
    { s \in SeqsUpTo(DeviceSet, MaxDevices) :
        \A i, j \in DOMAIN s : i # j => s[i] # s[j] }

CommandPalette == <<"terminal length 0", "show version", "show ip int brief">>

\* n initial commands, and n show commands; "show version" occurs in both lists
InitialCommandsOf(n) == [k \in 1..n |-> CommandPalette[((k - 1) % 3) + 1]]

ShowCommandsOf(n) == [k \in 1..n |-> CommandPalette[(k % 3) + 1]]

DeviceTypeParametersSet ==
    { [t \in {"cisco_ios", "juniper_junos"} |->
          IF t = "cisco_ios"
          THEN [initial_commands |-> InitialCommandsOf(a), show_commands |-> ShowCommandsOf(b)]
          ELSE [initial_commands |-> InitialCommandsOf(b), show_commands |-> ShowCommandsOf(a)]]
        : a \in 0..MaxCmds, b \in 0..MaxCmds }

-----------------------------------------------------------------------------
(* Texts the channel may hold when read_channel is called (main.py:55) *)

ReadTexts ==
    { <<"P","a","s","s","w","o","r","d",":">>,
      <<"a","'","s"," ","p","a","s","s","w","o","r","d",":">>,
      <<"P","A","S","S","W","O","R","D",":">>,
      <<"P","a","s","s","w","o","r">>,
      <<"r","1","#">>,
      <<>> }

\* python `x in output` for strings
Contains(text, x) ==
    \E i \in 1..(Len(text) - Len(x) + 1) : SubSeq(text, i, i + Len(x) - 1) = x

containsAuthPrompt_OnlyCapital(text) ==
    Contains(text, <<"P","a","s","s","w","o","r","d">>)

\* main.py:56  any(x in output for x in ['password', 'Password'])
containsAuthPrompt(text) ==
    \E x \in { <<"p","a","s","s","w","o","r","d">>,
               <<"P","a","s","s","w","o","r","d">> } : Contains(text, x)

-----------------------------------------------------------------------------
(* The current device and the parameters of the calls *)

device == devices[di]

\* main.py:44-49
connect_params_jumphost ==
    [device_type |-> jumphost_params.device_type,
     host        |-> jumphost_params.host,
     username    |-> jumphost_params.username,
     password    |-> jumphost_params.password]

connect_params_direct_JumphostProfile ==
    [device_type |-> jumphost_params.device_type,
     host        |-> device.host,
     username    |-> device_connect_credentials.username,
     password    |-> device_connect_credentials.password]

\* main.py:65-70
connect_params_direct ==
    [device_type |-> device.type,
     host        |-> device.host,
     username    |-> device_connect_credentials.username,
     password    |-> device_connect_credentials.password]

\* main.py:53
SshLine == <<"ssh ", device_connect_credentials.username, "@", device.host, "\n">>

\* main.py:58
PasswordLine == <<device_connect_credentials.password, "\n">>

Digits == <<"0", "1", "2", "3", "4", "5", "6", "7", "8", "9">>

\* the text the remote end emits for the n-th send_command of the session:
\* it carries the command and n, so the text of two sends is never the same
Response(command, n) == <<"<", command, Digits[n + 1], ">">>

\* the kind of shell a syntax profile is written for
ShellOfProfile(device_type) ==
    IF device_type = jumphost_params.device_type THEN "jumphost" ELSE "device"

NoSession == [state |-> "none", device_type |-> ""]

Unbound == [bound |-> FALSE, value |-> <<>>]

\* one call made on netmiko: what, with which argument, whether it returned
\* (ok) or raised, what it returned, and the shell and profile at the call
Ev(op, arg, ok, ret) ==
    [op |-> op, arg |-> arg, ok |-> ok, ret |-> ret,
     at |-> shell, prof |-> net_connect.device_type]

Logged(op, arg, ok, ret) == log' = Append(log, Ev(op, arg, ok, ret))

ParamsArg(p) == <<p.device_type, p.host, p.username, p.password>>

\* variables of main that get_device_info never touches
main_vars == <<jumphost_params, devices, device_type_parameters, di, device_type_params,
               filename, files, show_command_outputs>>

RaiseAndReturnOutput(e) ==
    /\ pc' = "L86"
    /\ exc' = "none"

\* an exception raised inside get_device_info leaves it: nothing catches it
Raise(e) ==
    /\ pc' = "raised"
    /\ exc' = e

-----------------------------------------------------------------------------
Init ==
    /\ pc = "for"
    /\ jumphost_params \in JumphostParamsSet
    /\ devices \in Inventories
    /\ device_type_parameters \in DeviceTypeParametersSet
    /\ di = 0
    /\ device_type_params = [initial_commands |-> <<>>, show_commands |-> <<>>]
    /\ clock = 0
    /\ filename = <<>>
    /\ files = {}
    /\ net_connect = NoSession
    /\ shell = "none"
    /\ output = <<>>
    /\ ci = 0
    /\ log = <<>>
    /\ exc = "none"
    /\ show_command_outputs = Unbound
    /\ open_sessions = 0
    /\ outstanding = 0

-----------------------------------------------------------------------------
(* main(): the device loop, main.py:117-127 *)

\* main.py:117  for device in devices  (next device; its log starts empty)
ForDevice ==
    /\ pc = "for"
    /\ di < Len(devices)
    /\ di' = di + 1
    /\ log' = <<>>
    /\ pc' = "L118"
    /\ UNCHANGED <<jumphost_params, devices, device_type_parameters, device_type_params,
                   clock, filename, files, net_connect, shell, output, ci, exc,
                   show_command_outputs, open_sessions, outstanding>>

\* main.py:117  the inventory is exhausted: main returns
ForDone ==
    /\ pc = "for"
    /\ di = Len(devices)
    /\ pc' = "done"
    /\ UNCHANGED <<jumphost_params, devices, device_type_parameters, di, device_type_params,
                   clock, filename, files, net_connect, shell, output, ci, log, exc,
                   show_command_outputs, open_sessions, outstanding>>

\* main.py:118  device_type_parameters[device['type']]
LookupTypeParams ==
    /\ pc = "L118"
    /\ device.type \in DOMAIN device_type_parameters
    /\ device_type_params' = device_type_parameters[device.type]
    /\ pc' = "L119"
    /\ UNCHANGED <<jumphost_params, devices, device_type_parameters, di,
                   clock, filename, files, net_connect, shell, output, ci, log, exc,
                   show_command_outputs, open_sessions, outstanding>>

LookupKeyError_DefaultProfile ==
    /\ pc = "L118"
    /\ device.type \notin DOMAIN device_type_parameters
    /\ device_type_params' = [initial_commands |-> <<>>, show_commands |-> <<>>]
    /\ pc' = "L119"
    /\ UNCHANGED <<jumphost_params, devices, device_type_parameters, di,
                   clock, filename, files, net_connect, shell, output, ci, log, exc,
                   show_command_outputs, open_sessions, outstanding>>

\* main.py:118  KeyError: the type has no entry; nothing in main catches it
LookupKeyError ==
    /\ pc = "L118"
    /\ device.type \notin DOMAIN device_type_parameters
    /\ exc' = "KeyError"
    /\ pc' = "crashed"
    /\ UNCHANGED <<jumphost_params, devices, device_type_parameters, di, device_type_params,
                   clock, filename, files, net_connect, shell, output, ci, log,
                   show_command_outputs, open_sessions, outstanding>>

\* main.py:120  f"{device['hostname']}_{current_time}.txt"
FileName(hostname, current_time) == <<hostname, "_", Digits[current_time + 1], ".txt">>

OpenFile_Lazy ==
    /\ pc = "L119"
    /\ \E current_time \in {clock, clock + 1} :
          /\ clock' = current_time
          /\ filename' = FileName(device.hostname, current_time)
    /\ pc' = "L122"
    /\ UNCHANGED <<jumphost_params, devices, device_type_parameters, di, device_type_params,
                   files, net_connect, shell, output, ci, log, exc, show_command_outputs,
                   open_sessions, outstanding>>

\* main.py:119-121  the clock is read (it may have moved on since it was last
\* looked at) and the file is created, or truncated when it exists
OpenFile ==
    /\ pc = "L119"
    /\ \E current_time \in {clock, clock + 1} :
          /\ clock' = current_time
          /\ filename' = FileName(device.hostname, current_time)
    /\ files' = {f \in files : f.name # filename'} \cup {[name |-> filename', content |-> <<>>]}
    /\ pc' = "L122"
    /\ UNCHANGED <<jumphost_params, devices, device_type_parameters, di, device_type_params,
                   net_connect, shell, output, ci, log, exc, show_command_outputs, open_sessions, outstanding>>

CallGetDeviceInfo_AlwaysRelay ==
    /\ pc = "L122"
    /\ net_connect' = NoSession
    /\ shell' = "none"
    /\ output' = <<>>
    /\ ci' = 0
    /\ outstanding' = 0
    /\ pc' = "L50"
    /\ UNCHANGED <<jumphost_params, devices, device_type_parameters, di, device_type_params,
                   clock, filename, files, log, exc, show_command_outputs, open_sessions>>

\* main.py:122 and main.py:42  the call, and the choice of the path:
\* a non-empty jump host name selects the relay
CallGetDeviceInfo ==
    /\ pc = "L122"
    /\ net_connect' = NoSession
    /\ shell' = "none"
    /\ output' = <<>>
    /\ ci' = 0
    /\ outstanding' = 0
    /\ pc' = IF jumphost_params.host # "" THEN "L50" ELSE "L71"
    /\ UNCHANGED <<jumphost_params, devices, device_type_parameters, di, device_type_params,
                   clock, filename, files, log, exc, show_command_outputs, open_sessions>>

RECURSIVE Concat(_)
Concat(texts) == IF texts = <<>> THEN <<>> ELSE Head(texts) \o Concat(Tail(texts))

\* main.py:126-127  every output is written, then the file is closed
WriteOutputs ==
    /\ pc = "L126"
    /\ files' = {f \in files : f.name # filename}
                  \cup {[name |-> filename, content |-> Concat(show_command_outputs.value)]}
    /\ pc' = "for"
    /\ UNCHANGED <<jumphost_params, devices, device_type_parameters, di, device_type_params,
                   clock, filename, net_connect, shell, output, ci, log, exc,
                   show_command_outputs, open_sessions, outstanding>>

\* main.py:121-125  the exception leaves the with block (the file is closed,
\* nothing was written to it) and main: the program ends with a traceback
Propagate ==
    /\ pc = "raised"
    /\ pc' = "crashed"
    /\ UNCHANGED <<jumphost_params, devices, device_type_parameters, di, device_type_params,
                   clock, filename, files, net_connect, shell, output, ci, log, exc,
                   show_command_outputs, open_sessions, outstanding>>

-----------------------------------------------------------------------------
(* get_device_info(): the relay through the jump host, main.py:42-61 *)

JumphostConnect_SkipsPrompt ==
    /\ pc = "L50"
    /\ Logged("ConnectHandler", ParamsArg(connect_params_jumphost), TRUE, <<>>)
    /\ net_connect' = [state |-> "open", device_type |-> connect_params_jumphost.device_type]
    /\ shell' = "jumphost"
    /\ open_sessions' = open_sessions + 1
    /\ pc' = "L53"
    /\ UNCHANGED <<main_vars, clock, output, ci, exc, outstanding>>

\* main.py:50  ConnectHandler(**connect_params) returns: the session is open
\* at the jump host's shell, with the jump host's profile
JumphostConnect ==
    /\ pc = "L50"
    /\ Logged("ConnectHandler", ParamsArg(connect_params_jumphost), TRUE, <<>>)
    /\ net_connect' = [state |-> "open", device_type |-> connect_params_jumphost.device_type]
    /\ shell' = "jumphost"
    /\ open_sessions' = open_sessions + 1
    /\ pc' = "L51"
    /\ UNCHANGED <<main_vars, clock, output, ci, exc, outstanding>>

JumphostConnectFails_Swallowed ==
    /\ pc = "L50"
    /\ Logged("ConnectHandler", ParamsArg(connect_params_jumphost), FALSE, <<>>)
    /\ pc' = "L53"
    /\ UNCHANGED <<main_vars, clock, net_connect, shell, output, ci, exc, open_sessions, outstanding>>

\* main.py:50  ConnectHandler raises (unreachable, authentication, timeout)
JumphostConnectFails ==
    /\ pc = "L50"
    /\ Logged("ConnectHandler", ParamsArg(connect_params_jumphost), FALSE, <<>>)
    /\ Raise("ConnectionError")
    /\ UNCHANGED <<main_vars, clock, net_connect, shell, output, ci, open_sessions, outstanding>>

\* main.py:51  find_prompt() returns
JumphostFindPrompt ==
    /\ pc = "L51"
    /\ Logged("find_prompt", <<>>, TRUE, <<>>)
    /\ pc' = "L53"
    /\ UNCHANGED <<main_vars, clock, net_connect, shell, output, ci, exc, open_sessions, outstanding>>

\* main.py:51  find_prompt() raises
JumphostFindPromptFails ==
    /\ pc = "L51"
    /\ Logged("find_prompt", <<>>, FALSE, <<>>)
    /\ Raise("ConnectionError")
    /\ UNCHANGED <<main_vars, clock, net_connect, shell, output, ci, open_sessions, outstanding>>

\* main.py:53  write_channel(f"ssh {username}@{host}\n"): the ssh client that
\* starts in the jump host's shell reaches the device's shell (key
\* authentication), stops at a password prompt, or fails and leaves the
\* channel at the jump host's shell
WriteSsh ==
    /\ pc = "L53"
    /\ Logged("write_channel", SshLine, TRUE, <<>>)
    /\ shell' \in {"device", "pwprompt", "jumphost"}
    /\ pc' = "L54"
    /\ UNCHANGED <<main_vars, clock, net_connect, output, ci, exc, open_sessions, outstanding>>

\* main.py:54  time.sleep(1)
Sleep ==
    /\ pc = "L54"
    /\ clock' = clock + 1
    /\ Logged("sleep", <<>>, TRUE, <<>>)
    /\ pc' = "L55"
    /\ UNCHANGED <<main_vars, net_connect, shell, output, ci, exc, open_sessions, outstanding>>

ReadChannel_PollsForPassword ==
    /\ pc = "L55"
    /\ \E text \in ReadTexts :
          /\ output' = text
          /\ IF containsAuthPrompt(text)
             THEN Logged("read_channel", <<>>, TRUE, text) /\ pc' = "L56"
             ELSE log' = log /\ pc' = "L55"
    /\ UNCHANGED <<main_vars, clock, net_connect, shell, ci, exc, open_sessions, outstanding>>

\* main.py:55  output = net_connect.read_channel(): whatever has arrived by
\* now, banner text included; a prompt may still come later
ReadChannel ==
    /\ pc = "L55"
    /\ \E text \in ReadTexts :
          /\ output' = text
          /\ Logged("read_channel", <<>>, TRUE, text)
    /\ pc' = "L56"
    /\ UNCHANGED <<main_vars, clock, net_connect, shell, ci, exc, open_sessions, outstanding>>

\* main.py:56  the if: a password prompt was read
AuthPromptSeen ==
    /\ pc = "L56"
    /\ containsAuthPrompt(output)
    /\ pc' = "L58"
    /\ UNCHANGED <<main_vars, clock, net_connect, shell, output, ci, log, exc, open_sessions, outstanding>>

AuthPromptNotSeen_SkipsPromptWait ==
    /\ pc = "L56"
    /\ ~containsAuthPrompt(output)
    /\ pc' = "L60"
    /\ UNCHANGED <<main_vars, clock, net_connect, shell, output, ci, log, exc, open_sessions, outstanding>>

\* main.py:56  the if: no password prompt was read
AuthPromptNotSeen ==
    /\ pc = "L56"
    /\ ~containsAuthPrompt(output)
    /\ pc' = "L59"
    /\ UNCHANGED <<main_vars, clock, net_connect, shell, output, ci, log, exc, open_sessions, outstanding>>

\* main.py:58  write_channel(f"{password}\n"): at a password prompt the
\* device accepts it, asks again, or ssh gives up; anywhere else the line is
\* just typed into the shell
WritePassword ==
    /\ pc = "L58"
    /\ Logged("write_channel", PasswordLine, TRUE, <<>>)
    /\ shell' \in IF shell = "pwprompt" THEN {"device", "pwprompt", "jumphost"} ELSE {shell}
    /\ pc' = "L59"
    /\ UNCHANGED <<main_vars, clock, net_connect, output, ci, exc, open_sessions, outstanding>>

\* the shell after the newline find_prompt types: an empty password is never
\* accepted
AfterNewline == IF shell = "pwprompt" THEN {"pwprompt", "jumphost"} ELSE {shell}

\* main.py:59  find_prompt() returns: some line came back, from whichever
\* shell (or prompt) the channel is at
RelayFindPrompt ==
    /\ pc = "L59"
    /\ Logged("find_prompt", <<>>, TRUE, <<>>)
    /\ shell' \in AfterNewline
    /\ pc' = "L60"
    /\ UNCHANGED <<main_vars, clock, net_connect, output, ci, exc, open_sessions, outstanding>>

\* main.py:59  find_prompt() raises
RelayFindPromptFails ==
    /\ pc = "L59"
    /\ Logged("find_prompt", <<>>, FALSE, <<>>)
    /\ shell' \in AfterNewline
    /\ Raise("ConnectionError")
    /\ UNCHANGED <<main_vars, clock, net_connect, output, ci, open_sessions, outstanding>>

Redispatch_KeepsProfile ==
    /\ pc = "L60"
    /\ Logged("redispatch", <<device.type>>, TRUE, <<>>)
    /\ pc' = "L76"
    /\ UNCHANGED <<main_vars, clock, net_connect, shell, output, ci, exc, open_sessions,
                   outstanding>>

\* main.py:60  redispatch(net_connect, device_type=device['type']) returns
Redispatch ==
    /\ pc = "L60"
    /\ Logged("redispatch", <<device.type>>, TRUE, <<>>)
    /\ net_connect' = [net_connect EXCEPT !.device_type = device.type]
    /\ pc' = "L76"
    /\ UNCHANGED <<main_vars, clock, shell, output, ci, exc, open_sessions, outstanding>>

\* main.py:60  redispatch raises while it prepares the session for the new
\* profile (the profile is already set by then)
RedispatchFails ==
    /\ pc = "L60"
    /\ Logged("redispatch", <<device.type>>, FALSE, <<>>)
    /\ net_connect' = [net_connect EXCEPT !.device_type = device.type]
    /\ Raise("ConnectionError")
    /\ UNCHANGED <<main_vars, clock, shell, output, ci, open_sessions, outstanding>>

-----------------------------------------------------------------------------
(* get_device_info(): the direct connection, main.py:63-73 *)

\* main.py:71  ConnectHandler(**connect_params) returns
DirectConnect ==
    /\ pc = "L71"
    /\ Logged("ConnectHandler", ParamsArg(connect_params_direct), TRUE, <<>>)
    /\ net_connect' = [state |-> "open", device_type |-> connect_params_direct.device_type]
    /\ shell' = "device"
    /\ open_sessions' = open_sessions + 1
    /\ pc' = "L72"
    /\ UNCHANGED <<main_vars, clock, output, ci, exc, outstanding>>

\* main.py:71  ConnectHandler raises
DirectConnectFails ==
    /\ pc = "L71"
    /\ Logged("ConnectHandler", ParamsArg(connect_params_direct), FALSE, <<>>)
    /\ Raise("ConnectionError")
    /\ UNCHANGED <<main_vars, clock, net_connect, shell, output, ci, open_sessions, outstanding>>

\* main.py:72  find_prompt() returns
DirectFindPrompt ==
    /\ pc = "L72"
    /\ Logged("find_prompt", <<>>, TRUE, <<>>)
    /\ pc' = "L76"
    /\ UNCHANGED <<main_vars, clock, net_connect, shell, output, ci, exc, open_sessions, outstanding>>

\* main.py:72  find_prompt() raises
DirectFindPromptFails ==
    /\ pc = "L72"
    /\ Logged("find_prompt", <<>>, FALSE, <<>>)
    /\ Raise("ConnectionError")
    /\ UNCHANGED <<main_vars, clock, net_connect, shell, output, ci, open_sessions, outstanding>>

-----------------------------------------------------------------------------
(* get_device_info(): the commands, main.py:75-86 *)

\* number of send_command calls made on the session so far
Sent == Cardinality({k \in DOMAIN log : log[k].op = "send_command"})

\* main.py:76-77  send_command(command) is entered for the next initial
\* command: the command is written and the call waits for the prompt
SendInitialCommand ==
    /\ pc = "L76"
    /\ ci < Len(device_type_params.initial_commands)
    /\ outstanding' = outstanding + 1
    /\ pc' = "L77"
    /\ UNCHANGED <<main_vars, clock, net_connect, shell, output, ci, log, exc, open_sessions>>

\* main.py:77  the prompt is back: send_command returns; its output is dropped
InitialCommand ==
    /\ pc = "L77"
    /\ LET command == device_type_params.initial_commands[ci + 1]
       IN  Logged("send_command", <<command>>, TRUE, Response(command, Sent + 1))
    /\ ci' = ci + 1
    /\ outstanding' = outstanding - 1
    /\ pc' = "L76"
    /\ UNCHANGED <<main_vars, clock, net_connect, shell, output, exc, open_sessions>>

InitialCommandFails_Skipped ==
    /\ pc = "L77"
    /\ LET command == device_type_params.initial_commands[ci + 1]
       IN  Logged("send_command", <<command>>, FALSE, <<>>)
    /\ ci' = ci + 1
    /\ pc' = "L76"
    /\ UNCHANGED <<main_vars, clock, net_connect, shell, output, exc, open_sessions, outstanding>>

\* main.py:77  send_command raises: the prompt did not come back in time,
\* the command is still outstanding on the channel
InitialCommandFails ==
    /\ pc = "L77"
    /\ LET command == device_type_params.initial_commands[ci + 1]
       IN  Logged("send_command", <<command>>, FALSE, <<>>)
    /\ Raise("CommandError")
    /\ UNCHANGED <<main_vars, clock, net_connect, shell, output, ci, open_sessions, outstanding>>

\* main.py:76 and main.py:80  the initial commands are exhausted; output = []
InitialDone ==
    /\ pc = "L76"
    /\ ci = Len(device_type_params.initial_commands)
    /\ output' = <<>>
    /\ ci' = 0
    /\ pc' = "L81"
    /\ UNCHANGED <<main_vars, clock, net_connect, shell, log, exc, open_sessions, outstanding>>

ShowCommand_Prepends ==
    /\ pc = "L82"
    /\ LET command == device_type_params.show_commands[ci + 1]
           text == Response(command, Sent + 1)
       IN  /\ Logged("send_command", <<command>>, TRUE, text)
           /\ output' = <<text>> \o output
    /\ ci' = ci + 1
    /\ outstanding' = outstanding - 1
    /\ pc' = "L81"
    /\ UNCHANGED <<main_vars, clock, net_connect, shell, exc, open_sessions>>

SendShowCommand_NoWait ==
    /\ pc = "L81"
    /\ ci < Len(device_type_params.show_commands)
    /\ outstanding' = outstanding + 1
    /\ ci' = ci + 1
    /\ UNCHANGED <<main_vars, pc, clock, net_connect, shell, output, log, exc, open_sessions>>

\* main.py:81-82  send_command(command, use_textfsm=False) is entered for the
\* next show command: the command is written and the call waits for the prompt
SendShowCommand ==
    /\ pc = "L81"
    /\ ci < Len(device_type_params.show_commands)
    /\ outstanding' = outstanding + 1
    /\ pc' = "L82"
    /\ UNCHANGED <<main_vars, clock, net_connect, shell, output, ci, log, exc, open_sessions>>

ShowCommand_DisconnectsInLoop ==
    /\ pc = "L82"
    /\ LET command == device_type_params.show_commands[ci + 1]
           text == Response(command, Sent + 1)
       IN  /\ log' = Append(Append(log, Ev("send_command", <<command>>, TRUE, text)),
                            Ev("disconnect", <<>>, TRUE, <<>>))
           /\ output' = Append(output, text)
    /\ net_connect' = [net_connect EXCEPT !.state = "closed"]
    /\ ci' = ci + 1
    /\ outstanding' = outstanding - 1
    /\ pc' = "L81"
    /\ UNCHANGED <<main_vars, clock, shell, exc, open_sessions>>

\* main.py:82  the prompt is back: send_command returns; its output is appended
ShowCommand ==
    /\ pc = "L82"
    /\ LET command == device_type_params.show_commands[ci + 1]
           text == Response(command, Sent + 1)
       IN  /\ Logged("send_command", <<command>>, TRUE, text)
           /\ output' = Append(output, text)
    /\ ci' = ci + 1
    /\ outstanding' = outstanding - 1
    /\ pc' = "L81"
    /\ UNCHANGED <<main_vars, clock, net_connect, shell, exc, open_sessions>>

\* main.py:82  send_command raises; the command is still outstanding
ShowCommandFails ==
    /\ pc = "L82"
    /\ LET command == device_type_params.show_commands[ci + 1]
       IN  Logged("send_command", <<command>>, FALSE, <<>>)
    /\ Raise("CommandError")
    /\ UNCHANGED <<main_vars, clock, net_connect, shell, output, ci, open_sessions, outstanding>>

\* main.py:81  the show commands are exhausted
ShowDone ==
    /\ pc = "L81"
    /\ ci = Len(device_type_params.show_commands)
    /\ pc' = "L84"
    /\ UNCHANGED <<main_vars, clock, net_connect, shell, output, ci, log, exc, open_sessions, outstanding>>

\* main.py:84  net_connect.disconnect()
Disconnect ==
    /\ pc = "L84"
    /\ Logged("disconnect", <<>>, TRUE, <<>>)
    /\ net_connect' = [net_connect EXCEPT !.state = "closed"]
    /\ shell' = "none"
    /\ open_sessions' = open_sessions - 1
    /\ pc' = "L86"
    /\ UNCHANGED <<main_vars, clock, output, ci, exc, outstanding>>

\* main.py:86 and main.py:122  return output, bound to show_command_outputs
Return ==
    /\ pc = "L86"
    /\ show_command_outputs' = [bound |-> TRUE, value |-> output]
    /\ pc' = "L126"
    /\ UNCHANGED <<jumphost_params, devices, device_type_parameters, di, device_type_params,
                   filename, files, clock, net_connect, shell, output, ci, log, exc, open_sessions, outstanding>>

-----------------------------------------------------------------------------
Next ==
    \/ ForDevice \/ ForDone \/ LookupTypeParams \/ LookupKeyError \/ OpenFile
    \/ CallGetDeviceInfo \/ WriteOutputs \/ Propagate
    \/ JumphostConnect \/ JumphostConnectFails
    \/ JumphostFindPrompt \/ JumphostFindPromptFails
    \/ WriteSsh \/ Sleep \/ ReadChannel \/ AuthPromptSeen \/ AuthPromptNotSeen
    \/ WritePassword \/ RelayFindPrompt \/ RelayFindPromptFails
    \/ Redispatch \/ RedispatchFails
    \/ DirectConnect \/ DirectConnectFails \/ DirectFindPrompt \/ DirectFindPromptFails
    \/ SendInitialCommand \/ InitialCommand \/ InitialCommandFails \/ InitialDone
    \/ SendShowCommand \/ ShowCommand \/ ShowCommandFails \/ ShowDone
    \/ Disconnect \/ Return

Spec == Init /\ [][Next]_vars

\* every call the program waits in returns or raises after its timeout, and
\* the interpreter runs the next statement: some step is always taken
LiveSpec == Init /\ [][Next]_vars /\ WF_vars(Next)

-----------------------------------------------------------------------------
(* Vocabulary of the properties *)

\* positions inside get_device_info
GdiLabels == {"L50", "L51", "L53", "L54", "L55", "L56", "L58", "L59", "L60",
              "L71", "L72", "L76", "L77", "L81", "L82", "L84", "L86"}

\* the call for the current device has ended (returned or raised)
CallOver == log # <<>> /\ pc \notin GdiLabels

Returned == log # <<>> /\ pc = "L126"

Relay == jumphost_params.host # ""

Count(op) == Cardinality({k \in DOMAIN log : log[k].op = op})

IsSend(e) == e.op = "send_command"

Sends == SelectSeq(log, IsSend)

SessionOpened == \E k \in DOMAIN log : log[k].op = "ConnectHandler" /\ log[k].ok

AnyFailed == \E k \in DOMAIN log : ~log[k].ok

IsSshWrite(e) ==
    e.op = "write_channel" /\ e.arg = <<"ssh ", "admin", "@", device.host, "\n">>

IsPasswordWrite(e) == e.op = "write_channel" /\ e.arg = <<"secret", "\n">>

PasswordWrites == Cardinality({k \in DOMAIN log : IsPasswordWrite(log[k])})

\* the prompt-wait that follows the embedded ssh step
IsRelayPromptWait(k) ==
    /\ log[k].op = "find_prompt"
    /\ \E j \in 1..(k - 1) : IsSshWrite(log[j])

\* the embedded ssh did not bring the channel to the device's shell
HopFailed == \E k \in DOMAIN log : IsRelayPromptWait(k) /\ log[k].at # "device"

-----------------------------------------------------------------------------
(* C1: once ConnectHandler has returned a session, disconnect is called     *)
(* exactly once on it before the call ends, whether the call returns or     *)
(* fails in the relay negotiation, the initial commands or the show         *)
(* commands.                                                                *)
C1_DisconnectExactlyOnce ==
    (CallOver /\ SessionOpened) => Count("disconnect") = 1

(* C2: whenever a command is sent with send_command, the profile of the     *)
(* session is the one of the shell the channel is really talking to.        *)
C2_ProfileMatchesShell ==
    \A k \in DOMAIN log :
        IsSend(log[k]) => ShellOfProfile(log[k].prof) = log[k].at

(* C3 as stated: with a jump host configured, every call opens exactly one  *)
(* session, to the jump host and before anything else, and invokes          *)
(* redispatch exactly once, only after the prompt-wait that follows the     *)
(* embedded ssh step has returned.                                          *)
C3_Original ==
    (Relay /\ CallOver) =>
        /\ log[1].op = "ConnectHandler"
        /\ log[1].arg = <<"linux", "jump1", "jump", "jpw">>
        /\ Count("ConnectHandler") = 1
        /\ Count("redispatch") = 1
        /\ \A k \in DOMAIN log :
              log[k].op = "redispatch" =>
                  k > 1 /\ IsRelayPromptWait(k - 1) /\ log[k - 1].ok

(* C3 (amended): with a jump host configured, ConnectHandler is the first   *)
(* call and the only open, and it is for the jump host with the jump host's *)
(* profile and credentials; redispatch to the device's type is invoked at   *)
(* most once, only right after the prompt-wait that follows the embedded    *)
(* ssh step has returned, and exactly once in every call in which that      *)
(* prompt-wait returned.                                                    *)
C3_RelayOpenAndRebind ==
    (Relay /\ log # <<>>) =>
        /\ log[1].op = "ConnectHandler"
        /\ log[1].arg = <<"linux", "jump1", "jump", "jpw">>
        /\ Count("ConnectHandler") = 1
        /\ Count("redispatch") <= 1
        /\ \A k \in DOMAIN log :
              log[k].op = "redispatch" =>
                  /\ k > 1 /\ IsRelayPromptWait(k - 1) /\ log[k - 1].ok
                  /\ log[k].arg = <<device.type>>
        /\ \A k \in DOMAIN log :
              (IsRelayPromptWait(k) /\ log[k].ok /\ pc # "L60") => Count("redispatch") = 1

C3_Witness ==
    /\ Relay /\ Returned
    /\ Count("redispatch") = 1
    /\ PasswordWrites = 1
    /\ net_connect.device_type = device.type

(* C4: without a jump host, the call opens exactly one session: the first   *)
(* and only ConnectHandler call is made directly for device['host'], with   *)
(* device['type'] as profile and the device credentials; when it returns    *)
(* that one session is open with that profile at the device's shell.        *)
C4_DirectOpen ==
    (~Relay /\ log # <<>>) =>
        /\ log[1].op = "ConnectHandler"
        /\ log[1].arg = <<device.type, device.host, "admin", "secret">>
        /\ Count("ConnectHandler") = 1
        /\ (log[1].ok /\ Len(log) > 1) => (log[2].prof = device.type /\ log[2].at = "device")
        /\ Returned => log[1].ok

C4_Witness ==
    /\ ~Relay /\ Returned
    /\ log[1].ok
    /\ device.type = "juniper_junos"

\* "Password" or "password" occurs in the text
HasPasswordWord(text) ==
    \/ Contains(text, <<"P","a","s","s","w","o","r","d">>)
    \/ Contains(text, <<"p","a","s","s","w","o","r","d">>)

(* C5: on the relay path the password line is written only after the read  *)
(* that follows the embedded ssh line, and never twice; when the text that  *)
(* read returned contains "Password" or "password" the password line is     *)
(* written exactly once, and when it contains neither it is never written,  *)
(* whatever the channel is at afterwards.                                   *)
C5_PasswordOnce ==
    /\ PasswordWrites <= 1
    /\ (\A k \in DOMAIN log : log[k].op # "read_channel") => PasswordWrites = 0
    /\ \A k \in DOMAIN log :
          log[k].op = "read_channel" =>
              /\ (HasPasswordWord(log[k].ret) /\ pc \notin {"L56", "L58"}) =>
                     /\ PasswordWrites = 1
                     /\ IsPasswordWrite(log[k + 1])
              /\ ~HasPasswordWord(log[k].ret) => PasswordWrites = 0

C5_Witness ==
    /\ Returned
    /\ \E k \in DOMAIN log :
          /\ log[k].op = "read_channel"
          /\ log[k].ret = <<"a","'","s"," ","p","a","s","s","w","o","r","d",":">>
          /\ IsPasswordWrite(log[k + 1])
          /\ log[k + 1].at = "pwprompt"

(* C6: when the embedded relay hop fails, so that the channel is not at the *)
(* device's shell, the call fails with a connection error and no initial    *)
(* or show command is sent.                                                 *)
C6_FailedHopIsFatal ==
    HopFailed =>
        /\ Sends = <<>>
        /\ CallOver => (pc \in {"raised", "crashed"} /\ exc = "ConnectionError")

(* C7: a call that returns hands back exactly one output per show command:  *)
(* the i-th output is the text returned by the send of the i-th show        *)
(* command, it is the text of no other send, and the texts returned for the *)
(* initial commands are not in the list.                                    *)
C7_OutputsInOrder ==
    Returned =>
        LET ni == Len(device_type_params.initial_commands)
            ns == Len(device_type_params.show_commands)
            v  == show_command_outputs.value
        IN  /\ show_command_outputs.bound
            /\ Len(Sends) = ni + ns
            /\ Len(v) = ns
            /\ \A i \in 1..ns :
                  /\ Sends[ni + i].arg = <<device_type_params.show_commands[i]>>
                  /\ v[i] = Sends[ni + i].ret
                  /\ \A j \in 1..(ni + ns) : j # ni + i => v[i] # Sends[j].ret

C7_Witness ==
    /\ Returned
    /\ Len(device_type_params.initial_commands) >= 1
    /\ Len(show_command_outputs.value) = 2
    /\ show_command_outputs.value[1] # show_command_outputs.value[2]

(* C8: the commands are sent in the order of the initial list followed by   *)
(* the show list, each one only after the one before has returned; after a  *)
(* command that failed nothing more is sent.                                *)
C8_InitialThenShow ==
    LET all == device_type_params.initial_commands \o device_type_params.show_commands
    IN  /\ Len(Sends) <= Len(all)
        /\ \A k \in 1..Len(Sends) :
              /\ Sends[k].arg = <<all[k]>>
              /\ k < Len(Sends) => Sends[k].ok
        /\ \A k \in DOMAIN log : (IsSend(log[k]) /\ ~log[k].ok) => k = Len(log)
        /\ (pc \in {"L81", "L82", "L84", "L86"} \/ Returned) =>
              Len(Sends) >= Len(device_type_params.initial_commands)

C8_Witness ==
    /\ pc = "crashed"
    /\ Len(device_type_params.initial_commands) = 2
    /\ Len(device_type_params.show_commands) >= 1
    /\ Len(Sends) = 1
    /\ ~Sends[1].ok

(* C9: when a step of the call fails, the call fails as a whole: it never   *)
(* reaches its return, the exception leaves it, and main's                  *)
(* show_command_outputs is not bound to the outputs captured so far.        *)
C9_NoPartialOutput ==
    /\ [](AnyFailed => (pc \in {"raised", "crashed"} /\ exc # "none"))
    /\ [][AnyFailed' => show_command_outputs' = show_command_outputs]_vars

C9_Witness ==
    /\ pc = "raised"
    /\ Len(output) = 1
    /\ IsSend(log[Len(log)])
    /\ ~log[Len(log)].ok

(* C10: when the open of the jump-host session fails, the call fails with   *)
(* the connection error and that open is all that happened: no ssh line is  *)
(* written, no other open is tried, no command is sent and disconnect is    *)
(* not called.                                                              *)
C10_JumphostOpenFails ==
    (Relay /\ log # <<>> /\ ~log[1].ok) =>
        /\ Len(log) = 1
        /\ log[1].op = "ConnectHandler"
        /\ pc \in {"raised", "crashed"}
        /\ exc = "ConnectionError"
        /\ net_connect = NoSession

C10_Witness ==
    /\ Relay
    /\ pc = "crashed"
    /\ Len(log) = 1
    /\ log[1].op = "ConnectHandler"
    /\ ~log[1].ok

(* C11: a failure of get_device_info for one device aborts that device     *)
(* only: main goes on to poll every remaining device, so the run ends only  *)
(* once the whole inventory has been gone through.                          *)
C11_FailureSkipsOneDevice ==
    (pc \in {"crashed", "done"} /\ exc # "KeyError") => di = Len(devices)

(* C12: at most one session is open at any time: each device's session is  *)
(* opened and closed within its own call, so none is open when a call has   *)
(* ended nor when the next call opens its session.                          *)
C12_OneSessionScoped ==
    /\ open_sessions <= 1
    /\ CallOver => open_sessions = 0
    /\ pc \in {"L122", "L50", "L71"} => open_sessions = 0

(* C13: when the type of a device has no entry in device_type_parameters,   *)
(* the device is given up at the lookup, before any connection attempt: no  *)
(* call is made on netmiko for it (no open, nothing written to a channel)   *)
(* and no session is open.                                                  *)
C13_MissingProfileAbortsFirst ==
    (di > 0 /\ device.type \notin DOMAIN device_type_parameters) =>
        /\ pc \in {"L118", "crashed"}
        /\ log = <<>>
        /\ open_sessions = 0
        /\ pc = "crashed" => exc = "KeyError"

C13_Witness ==
    /\ pc = "crashed"
    /\ exc = "KeyError"
    /\ di = 2
    /\ device.type = "nokia_sros"
    /\ show_command_outputs.bound

(* C14: within a session at most one command is outstanding: a command,   *)
(* initial or show, is written only when no command written before is still *)
(* waiting for its prompt.                                                  *)
C14_OneCommandOutstanding ==
    /\ outstanding <= 1
    /\ pc \in {"L76", "L81"} => outstanding = 0
    /\ pc \in {"L77", "L82"} => outstanding = 1

C14_Witness ==
    /\ pc = "L82"
    /\ outstanding = 1
    /\ Len(Sends) = 3

SshWrites == Cardinality({k \in DOMAIN log : IsSshWrite(log[k])})

\* the calls of the relay negotiation in the order of main.py:50-60, with or
\* without the password line
RelayOrder(withPassword) ==
    <<"ConnectHandler", "find_prompt", "write_channel", "sleep", "read_channel">>
        \o (IF withPassword THEN <<"write_channel">> ELSE <<>>)
        \o <<"find_prompt", "redispatch">>

\* the log follows the relay order, each call made only after the one before
\* it returned, and the commands come after the rebind
FollowsRelayOrder ==
    LET order == RelayOrder(Len(log) >= 6 /\ IsPasswordWrite(log[6]))
    IN  /\ \A k \in DOMAIN log :
              /\ k <= Len(order) => log[k].op = order[k]
              /\ k > Len(order) => log[k].op \in {"send_command", "disconnect"}
              /\ k < Len(log) => log[k].ok
        /\ Len(log) >= 3 => IsSshWrite(log[3])
        /\ Count("read_channel") <= 1
        /\ Count("sleep") <= 1

(* C15 as stated: on the relay path the ssh line is written exactly once,   *)
(* after the jump-host session is open and its prompt was found, and the    *)
(* steps follow in the order wait, single read, optional password write,    *)
(* prompt-wait, rebind, with no send_command before the rebind.             *)
C15_Original ==
    (Relay /\ CallOver) => (SshWrites = 1 /\ FollowsRelayOrder)

(* C15 (amended): on the relay path the ssh line is written at most once,   *)
(* and exactly once in every call whose jump-host open and prompt-wait      *)
(* returned; it is the third call, after the open and the prompt-wait, and  *)
(* the calls then follow in the order wait, single read, optional password  *)
(* write, prompt-wait, rebind, each only after the one before returned; no  *)
(* send_command is made before the rebind has returned.                     *)
C15_RelayOrder ==
    (Relay /\ log # <<>>) =>
        /\ SshWrites <= 1
        /\ (Len(log) >= 2 /\ log[2].ok /\ pc # "L53") => SshWrites = 1
        /\ FollowsRelayOrder

C15_Witness ==
    /\ Relay /\ Returned
    /\ PasswordWrites = 0
    /\ SshWrites = 1
    /\ Len(Sends) >= 1

\* what the driver (main.py:75-86) is to do on a session with profile
\* device_type, whatever opened it: every initial command, every show
\* command, then disconnect; the n-th send returns the text of the n-th send
DriverTrace(params, device_type) ==
    LET all == params.initial_commands \o params.show_commands
    IN  [k \in 1..Len(all) |->
            [op |-> "send_command", arg |-> <<all[k]>>, ok |-> TRUE,
             ret |-> Response(all[k], k), prof |-> device_type]]
        \o << [op |-> "disconnect", arg |-> <<>>, ok |-> TRUE, ret |-> <<>>,
               prof |-> device_type] >>

\* the calls of the current call that belong to the driver phase
DriverEvents ==
    LET IsDriver(e) == e.op \in {"send_command", "disconnect"}
        Project(e)  == [op |-> e.op, arg |-> e.arg, ok |-> e.ok, ret |-> e.ret,
                        prof |-> e.prof]
        picked == SelectSeq(log, IsDriver)
    IN  [k \in 1..Len(picked) |-> Project(picked[k])]

(* C16: the driver phase does not depend on how the session was opened:    *)
(* on the direct path and after the relay alike, the send_command calls     *)
(* (command, profile, returned text), the disconnect and the returned list  *)
(* are the ones fixed by the device's type and its device-type parameters   *)
(* alone.                                                                   *)
C16_DriverSameOnBothPaths ==
    log # <<>> =>
    LET want == DriverTrace(device_type_params, device.type)
        got  == DriverEvents
    IN  /\ Len(got) <= Len(want)
        /\ \A k \in 1..Len(got) :
              IF got[k].ok
              THEN got[k] = want[k]
              ELSE /\ k = Len(got)
                   /\ got[k].op = want[k].op
                   /\ got[k].arg = want[k].arg
                   /\ got[k].prof = want[k].prof
        /\ Returned =>
              /\ got = want
              /\ show_command_outputs.value =
                    [i \in 1..Len(device_type_params.show_commands) |->
                        want[Len(device_type_params.initial_commands) + i].ret]

C16_Witness ==
    /\ Relay /\ Returned
    /\ Len(DriverEvents) = 4
    /\ Len(show_command_outputs.value) = 2
    /\ device.type = "juniper_junos"

(* C17: when every blocking call returns or raises in the end, every call  *)
(* of get_device_info ends, by its return or by an exception; it does not   *)
(* stay in the relay negotiation (or anywhere else in the call) for ever.   *)
C17_CallEnds ==
    (pc \in GdiLabels) ~> (pc \in {"L126", "raised"})

C17_Witness ==
    /\ Relay
    /\ pc = "L126"
    /\ Len(log) = 12
    /\ PasswordWrites = 1

(* C18: on the direct path the relay steps never occur: no raw write, no   *)
(* raw read, no wait and no redispatch, and the profile of the session is   *)
(* device['type'] from the open to the close; a redispatch is made on the   *)
(* relay path only.                                                         *)
C18_DirectPathHasNoRelaySteps ==
    (~Relay /\ log # <<>>) =>
        /\ \A k \in DOMAIN log :
              /\ log[k].op \notin {"write_channel", "read_channel", "sleep", "redispatch"}
              /\ k > 1 => log[k].prof = device.type
        /\ log[1].ok => net_connect.device_type = device.type

C18_Witness ==
    /\ ~Relay /\ Returned
    /\ net_connect = [state |-> "closed", device_type |-> "cisco_ios"]
    /\ Len(log) = 7

(* C19: disconnect is called at most once in a call, only after every      *)
(* initial and show command has returned, and it is the last call made on   *)
(* the session: no send_command, raw write, read, prompt-wait or rebind     *)
(* follows it.                                                              *)
C19_DisconnectLast ==
    /\ Count("disconnect") <= 1
    /\ \A k \in DOMAIN log :
          log[k].op = "disconnect" =>
              /\ k = Len(log)
              /\ \A j \in 1..(k - 1) : log[j].ok
              /\ Len(Sends) = Len(device_type_params.initial_commands)
                                + Len(device_type_params.show_commands)
              /\ outstanding = 0
              /\ net_connect.state = "closed"
    /\ (log # <<>> /\ net_connect.state = "closed") => Count("disconnect") = 1

C19_Witness ==
    /\ Returned
    /\ log[Len(log)].op = "disconnect"
    /\ Len(Sends) = 4
    /\ ~Relay

\* the content of the file called name, when it exists
FileNamed(name) == {f \in files : f.name = name}

(* C20: the file of a device is created before get_device_info is called   *)
(* for it, so during the call and when the call fails the file exists and   *)
(* is empty; when the call succeeds, the file holds the outputs of the show *)
(* commands concatenated in command order, and nothing else.                *)
C20_FileBeforeCall ==
    /\ (pc \in GdiLabels \cup {"raised", "L126"} \/ (pc = "crashed" /\ exc # "KeyError")) =>
          FileNamed(filename) = {[name |-> filename, content |-> <<>>]}
    /\ (pc = "for" /\ log # <<>>) =>
          LET ni == Len(device_type_params.initial_commands)
              ns == Len(device_type_params.show_commands)
              texts == [i \in 1..ns |-> Sends[ni + i].ret]
          IN  FileNamed(filename) = {[name |-> filename, content |-> Concat(texts)]}

C20_Witness ==
    /\ pc = "crashed"
    /\ exc = "CommandError"
    /\ Len(output) = 1
    /\ FileNamed(filename) = {[name |-> filename, content |-> <<>>]}

====
